---- MODULE Spec2Model ----
(***************************************************************************)
(* Model of table_initializer<domain_id, function_table_t>                 *)
(* (src/include/function_table_initializer.hpp): the per-device cache of   *)
(* backend function tables and of the library handles that back them, the  *)
(* candidate search of add_table, and the platform loader it drives.       *)
(*                                                                         *)
(* One instantiation (one domain) is modelled.  A caller p runs            *)
(* operator[] and add_table statement by statement; the two map            *)
(* assignments of lines 126-127 are split into the map's operator[]        *)
(* (which inserts a value-initialised element for a missing key) and the   *)
(* assignment proper, because the code takes no lock and another caller    *)
(* may run between the two.  Specification Spec has one caller, SpecConc   *)
(* has all of Threads.                                                     *)
(***************************************************************************)
EXTENDS Integers, Sequences, FiniteSets, TLC

\* ------------------------------------------------------------ constants
SPEC_VERSION == 1

\* Longest candidate list libraries[domain_id][key] of the registry.
MaxCands == 2

\* Version stamps a plugin may export: the expected one and another.
Versions == {SPEC_VERSION, SPEC_VERSION + 1}

Devices == {"x86cpu", "generic_device"}
Libs == {"libA", "libB"}
Threads == {"p1", "p2"}
NULL == "null"

\* What a library file on disk (or a loaded image) offers: present says the
\* file can be opened, sym that it exports table_names[domain_id], version
\* the version field of the exported table.
NoFile == [present |-> FALSE, sym |-> FALSE, version |-> 0]
NoSymbol == [present |-> TRUE, sym |-> FALSE, version |-> 0]
FileStates ==
    {NoFile, NoSymbol}
        \cup {[present |-> TRUE, sym |-> TRUE, version |-> v] : v \in Versions}

\* Sequences over S of length at most n.
SeqUpTo(S, n) == UNION {[1..k -> S] : k \in 0..n}

\* Candidate lists: the registry names a library once for a device, so
\* with the libraries of Libs these are all the lists it can hold.
CandidateLists ==
    {q \in SeqUpTo(Libs, MaxCands) : \A x, y \in 1..Len(q) : x # y => q[x] # q[y]}

\* function_table_t{}: the element std::map::operator[] inserts for a new key.
EmptyTable == [version |-> 0, fn |-> NULL]

\* How a call ends: with a table reference or with one of the exceptions.
Errors ==
    {"unsupported_device", "backend_not_found", "function_not_found",
     "specification_mismatch"}

\* What a caller has seen of its current call (observation only): how it
\* ended, the object the returned reference designates and the table read
\* through it, the libraries it tried to open, how many it opened, looked a
\* symbol up in and released, and how many error texts it wrote.
NoRef == [obj |-> "none", of |-> NULL]
NoObs ==
    [outcome |-> "none", path |-> "none", ref |-> NoRef, tbl |-> EmptyTable,
     attempts |-> <<>>, nopen |-> 0, lookups |-> 0, freed |-> 0, diag |-> 0]

\* What held when the call was made (observation only): how the previous
\* call for the device ended (and whether it had a valid candidate that
\* could be opened), the place in the candidate list of the first
\* library that can be opened (0: none) and what that library offers, and
\* whether some candidate can be opened and is valid.
Never == [outcome |-> "never", anyvalid |-> FALSE]
NoPre == [prev |-> Never, first |-> 0, offer |-> NoFile, anyvalid |-> FALSE]

VARIABLES
    libraries,                    \* registry: device -> ordered candidate list
    is_generic_device_supported,  \* build configuration
    file,                         \* library name -> what is installed on disk
    refcnt,                       \* loader: library name -> open count
    image,                        \* loader: library name -> loaded image
    tables,                       \* std::map<device, function_table_t>
    handles,                      \* std::map<device, dlhandle>
    pc,                           \* caller -> position in operator[]/add_table
    key,                          \* caller -> device of its call
    i,                            \* caller -> position in the candidate list
    handle,                       \* caller -> local dlhandle of add_table
    t,                            \* caller -> local table pointer of add_table
    obs,                          \* caller -> observation of its current call
    pre,                          \* caller -> what held when it called
    loads,                        \* device -> completed loads (banked tables)
    last,                         \* device -> how the last call for it ended
    badfree,                      \* FREE_LIB_HANDLE was given no open handle
    evicted                       \* devices whose banked handle was released

vars ==
    <<libraries, is_generic_device_supported, file, refcnt, image, tables,
      handles, pc, key, i, handle, t, obs, pre, loads, last, badfree, evicted>>

env == <<libraries, is_generic_device_supported, file>>
loader == <<refcnt, image, badfree>>
caches == <<tables, handles>>

\* ------------------------------------------------------------ helpers
\* m with m[k] set to v, k added to the domain when missing.
Put(m, k, v) == [x \in (DOMAIN m) \cup {k} |-> IF x = k THEN v ELSE m[x]]

\* The platform loader as add_table sees it.
Loader == [refcnt |-> refcnt, image |-> image, bad |-> badfree]

\* Whether GET_LIB_HANDLE(lib) returns a handle: the library is already
\* loaded in the process, or its file can be loaded.
Openable(lib) == refcnt[lib] > 0 \/ file[lib].present

\* What lib offers to a caller that opens it now: the image already loaded,
\* or the file on disk.
Offered(lib) == IF refcnt[lib] > 0 THEN image[lib] ELSE file[lib]

\* GET_LIB_HANDLE(libname): the loader L after lib was opened once more.
GET_LIB_HANDLE(L, lib) ==
    [refcnt |-> [L.refcnt EXCEPT ![lib] = @ + 1],
     image |-> IF L.refcnt[lib] > 0 THEN L.image
               ELSE [L.image EXCEPT ![lib] = file[lib]],
     bad |-> L.bad]

\* FREE_LIB_HANDLE(p): one reference of lib is dropped and the image is
\* unloaded with the last one.  A call with a null handle, or with the
\* handle of a library that is not open, is recorded.
FREE_LIB_HANDLE(L, lib) ==
    IF lib = NULL \/ L.refcnt[lib] = 0 THEN [L EXCEPT !.bad = TRUE]
    ELSE [refcnt |-> [L.refcnt EXCEPT ![lib] = @ - 1],
          image |-> IF L.refcnt[lib] = 1 THEN [L.image EXCEPT ![lib] = NoFile]
                    ELSE L.image,
          bad |-> L.bad]

\* A deleter with no null test, as of a hand-written owner: it is run for a
\* null handle too.
handle_deleter_unchecked(L, h) == FREE_LIB_HANDLE(L, h)

\* handle_deleter through unique_ptr: the deleter runs for a non-null
\* pointer only (reset, move assignment over an owner, destruction).
handle_deleter(L, h) == IF h = NULL THEN L ELSE FREE_LIB_HANDLE(L, h)

\* GET_FUNC(handle.get(), table_names[domain_id]): a pointer into the image
\* of lib (named by the library), or NULL when the symbol is not exported.
GET_FUNC(lib) == IF image[lib].sym THEN lib ELSE NULL

\* *t: the table the pointer designates, inside the image of the library.
Deref(ptr) == [version |-> image[ptr].version, fn |-> ptr]

\* A library that exports the table with the expected version.
Valid(f) == f.present /\ f.sym /\ f.version = SPEC_VERSION

\* The place in libraries[domain_id][d] of the first candidate that can be
\* opened now, 0 when there is none.
FirstOpenable(d) ==
    LET S == {k \in 1..Len(libraries[d]) : Openable(libraries[d][k])}
    IN  IF S = {} THEN 0 ELSE CHOOSE k \in S : \A j \in S : k <= j

\* The record of a call of p that ends with out.
Ended(p, out) ==
    [last EXCEPT ![key[p]] = [outcome |-> out, anyvalid |-> pre[p].anyvalid]]

Snapshot(d) ==
    [prev |-> last[d],
     first |-> FirstOpenable(d),
     offer |-> IF FirstOpenable(d) = 0 THEN NoFile
               ELSE Offered(libraries[d][FirstOpenable(d)]),
     anyvalid |-> \E k \in 1..Len(libraries[d]) :
                     Openable(libraries[d][k]) /\ Valid(Offered(libraries[d][k]))]

\* ------------------------------------------------------------ initial state
Init ==
    /\ libraries \in [Devices -> CandidateLists]
    /\ is_generic_device_supported \in BOOLEAN
    /\ file \in [Libs -> FileStates]
    /\ refcnt = [l \in Libs |-> 0]
    /\ image = [l \in Libs |-> NoFile]
    /\ tables = <<>>
    /\ handles = <<>>
    /\ pc = [p \in Threads |-> "idle"]
    /\ key = [p \in Threads |-> "x86cpu"]
    /\ i = [p \in Threads |-> 1]
    /\ handle = [p \in Threads |-> NULL]
    /\ t = [p \in Threads |-> NULL]
    /\ obs = [p \in Threads |-> NoObs]
    /\ pre = [p \in Threads |-> NoPre]
    /\ loads = [d \in Devices |-> 0]
    /\ last = [d \in Devices |-> Never]
    /\ badfree = FALSE
    /\ evicted = {}

\* ------------------------------------------------------------ operations
\* A caller enters operator[] with device d (the queue only feeds the
\* unsupported_device exception and is not modelled).
Call(p, d) ==
    /\ pc[p] = "idle"
    /\ pc' = [pc EXCEPT ![p] = "find"]
    /\ key' = [key EXCEPT ![p] = d]
    /\ obs' = [obs EXCEPT ![p] = NoObs]
    /\ pre' = [pre EXCEPT ![p] = Snapshot(d)]
    /\ UNCHANGED <<env, evicted, loader, caches, i, handle, t, loads, last>>

\* operator[] with the lookup lost: every call enters add_table.
operator_index_miss(p) ==
    /\ pc[p] = "find"
    /\ pc' = [pc EXCEPT ![p] = "open"]
    /\ i' = [i EXCEPT ![p] = 1]
    /\ handle' = [handle EXCEPT ![p] = NULL]
    /\ obs' = [obs EXCEPT ![p].path = "slow"]
    /\ UNCHANGED <<env, evicted, loader, caches, key, t, pre, loads, last>>

\* operator[]: tables.find(key); a hit returns lib->second, a miss enters
\* add_table, whose local dlhandle starts null.
operator_index(p) ==
    /\ pc[p] = "find"
    /\ IF key[p] \in DOMAIN tables
       THEN /\ pc' = [pc EXCEPT ![p] = "done"]
            /\ obs' = [obs EXCEPT ![p].outcome = "ok",
                                  ![p].path = "fast",
                                  ![p].ref = [obj |-> "cache", of |-> key[p]],
                                  ![p].tbl = tables[key[p]]]
            /\ last' = Ended(p, "ok")
            /\ UNCHANGED <<i, handle>>
       ELSE /\ pc' = [pc EXCEPT ![p] = "open"]
            /\ i' = [i EXCEPT ![p] = 1]
            /\ handle' = [handle EXCEPT ![p] = NULL]
            /\ obs' = [obs EXCEPT ![p].path = "slow"]
            /\ UNCHANGED last
    /\ UNCHANGED <<env, evicted, loader, caches, key, t, pre, loads>>

\* The candidate loop with the break lost: it goes on after a library opened.
add_table_loop_nobreak(p) ==
    /\ pc[p] = "open"
    /\ IF i[p] > Len(libraries[key[p]])
       THEN /\ pc' = [pc EXCEPT ![p] = "check"]
            /\ UNCHANGED <<loader, i, handle, obs>>
       ELSE LET lib == libraries[key[p]][i[p]]
                opened == Openable(lib)
                L1 == IF opened THEN GET_LIB_HANDLE(Loader, lib) ELSE Loader
                L2 == handle_deleter(L1, handle[p])
            IN  /\ refcnt' = L2.refcnt
                /\ image' = L2.image
                /\ badfree' = L2.bad
                /\ handle' = [handle EXCEPT ![p] = IF opened THEN lib ELSE NULL]
                /\ obs' = [obs EXCEPT ![p].attempts = Append(@, lib),
                                      ![p].nopen = @ + (IF opened THEN 1 ELSE 0)]
                /\ i' = [i EXCEPT ![p] = @ + 1]
                /\ UNCHANGED pc
    /\ UNCHANGED <<env, evicted, caches, key, t, pre, loads, last>>

\* One turn of the candidate loop: open libraries[domain_id][key][i], move
\* the result into handle (which releases what handle owned), break when the
\* handle is set; past the last candidate the loop ends.
add_table_loop(p) ==
    /\ pc[p] = "open"
    /\ IF i[p] > Len(libraries[key[p]])
       THEN /\ pc' = [pc EXCEPT ![p] = "check"]
            /\ UNCHANGED <<loader, i, handle, obs>>
       ELSE LET lib == libraries[key[p]][i[p]]
                opened == Openable(lib)
                L1 == IF opened THEN GET_LIB_HANDLE(Loader, lib) ELSE Loader
                L2 == handle_deleter(L1, handle[p])
            IN  /\ refcnt' = L2.refcnt
                /\ image' = L2.image
                /\ badfree' = L2.bad
                /\ handle' = [handle EXCEPT ![p] = IF opened THEN lib ELSE NULL]
                /\ obs' = [obs EXCEPT ![p].attempts = Append(@, lib),
                                      ![p].nopen = @ + (IF opened THEN 1 ELSE 0)]
                /\ IF opened
                   THEN pc' = [pc EXCEPT ![p] = "check"] /\ UNCHANGED i
                   ELSE i' = [i EXCEPT ![p] = @ + 1] /\ UNCHANGED pc
    /\ UNCHANGED <<env, evicted, caches, key, t, pre, loads, last>>

\* The test of line 108 with the negation lost.
add_table_no_handle_swapped(p) ==
    /\ pc[p] = "check"
    /\ IF handle[p] = NULL
       THEN /\ pc' = [pc EXCEPT ![p] = "done"]
            /\ IF is_generic_device_supported /\ key[p] = "generic_device"
               THEN obs' = [obs EXCEPT ![p].outcome = "unsupported_device"]
               ELSE obs' = [obs EXCEPT ![p].outcome = "backend_not_found",
                                       ![p].diag = @ + 1]
            /\ last' = Ended(p, obs'[p].outcome)
       ELSE /\ pc' = [pc EXCEPT ![p] = "getfunc"]
            /\ UNCHANGED <<obs, last>>
    /\ UNCHANGED <<env, evicted, loader, caches, key, i, handle, t, pre, loads>>

\* if (!handle): unsupported_device for the generic device of a build with
\* no generic backend, else the loader's error text and backend_not_found.
add_table_no_handle(p) ==
    /\ pc[p] = "check"
    /\ IF handle[p] = NULL
       THEN /\ pc' = [pc EXCEPT ![p] = "done"]
            /\ IF ~is_generic_device_supported /\ key[p] = "generic_device"
               THEN obs' = [obs EXCEPT ![p].outcome = "unsupported_device"]
               ELSE obs' = [obs EXCEPT ![p].outcome = "backend_not_found",
                                       ![p].diag = @ + 1]
            /\ last' = Ended(p, obs'[p].outcome)
       ELSE /\ pc' = [pc EXCEPT ![p] = "getfunc"]
            /\ UNCHANGED <<obs, last>>
    /\ UNCHANGED <<env, evicted, loader, caches, key, i, handle, t, pre, loads>>

\* add_table holding the library in a raw handle: a missing symbol throws
\* with the library left open.
add_table_get_func_leak(p) ==
    /\ pc[p] = "getfunc"
    /\ LET sym == GET_FUNC(handle[p])
       IN  IF sym = NULL
           THEN /\ pc' = [pc EXCEPT ![p] = "done"]
                /\ obs' = [obs EXCEPT ![p].outcome = "function_not_found",
                                      ![p].lookups = @ + 1,
                                      ![p].diag = @ + 1]
                /\ handle' = [handle EXCEPT ![p] = NULL]
                /\ last' = Ended(p, "function_not_found")
                /\ UNCHANGED <<loader, t>>
           ELSE /\ pc' = [pc EXCEPT ![p] = "version"]
                /\ obs' = [obs EXCEPT ![p].lookups = @ + 1]
                /\ t' = [t EXCEPT ![p] = sym]
                /\ UNCHANGED <<loader, handle, last>>
    /\ UNCHANGED <<env, evicted, caches, key, i, pre, loads>>

\* add_table banking the handle before the symbol is looked up: a missing
\* symbol throws with the handle already in the Handle Cache.
add_table_get_func_banked(p) ==
    /\ pc[p] = "getfunc"
    /\ LET sym == GET_FUNC(handle[p])
       IN  IF sym = NULL
           THEN /\ pc' = [pc EXCEPT ![p] = "done"]
                /\ obs' = [obs EXCEPT ![p].outcome = "function_not_found",
                                      ![p].lookups = @ + 1,
                                      ![p].diag = @ + 1]
                /\ handles' = Put(handles, key[p], handle[p])
                /\ handle' = [handle EXCEPT ![p] = NULL]
                /\ last' = Ended(p, "function_not_found")
                /\ UNCHANGED <<loader, tables, t>>
           ELSE /\ pc' = [pc EXCEPT ![p] = "version"]
                /\ obs' = [obs EXCEPT ![p].lookups = @ + 1]
                /\ t' = [t EXCEPT ![p] = sym]
                /\ UNCHANGED <<loader, caches, handle, last>>
    /\ UNCHANGED <<env, evicted, key, i, pre, loads>>

\* t = GET_FUNC(...); a null t writes the loader's error text and throws
\* function_not_found, and unwinding destroys the local handle.
\* add_table retrying after a missing symbol: the library is released and the
\* loop goes on with the next candidate.
add_table_get_func_retry(p) ==
    /\ pc[p] = "getfunc"
    /\ LET sym == GET_FUNC(handle[p])
           L1 == handle_deleter(Loader, handle[p])
       IN  IF sym = NULL
           THEN /\ pc' = [pc EXCEPT ![p] = "open"]
                /\ i' = [i EXCEPT ![p] = @ + 1]
                /\ obs' = [obs EXCEPT ![p].lookups = @ + 1,
                                      ![p].freed = @ + 1]
                /\ refcnt' = L1.refcnt
                /\ image' = L1.image
                /\ badfree' = L1.bad
                /\ handle' = [handle EXCEPT ![p] = NULL]
                /\ UNCHANGED <<t, last>>
           ELSE /\ pc' = [pc EXCEPT ![p] = "version"]
                /\ obs' = [obs EXCEPT ![p].lookups = @ + 1]
                /\ t' = [t EXCEPT ![p] = sym]
                /\ UNCHANGED <<loader, handle, last, i>>
    /\ UNCHANGED <<env, evicted, caches, key, pre, loads>>

\* add_table without the std::cerr line 119: function_not_found is thrown
\* with nothing written.
add_table_get_func_silent(p) ==
    /\ pc[p] = "getfunc"
    /\ LET sym == GET_FUNC(handle[p])
           L1 == handle_deleter(Loader, handle[p])
       IN  IF sym = NULL
           THEN /\ pc' = [pc EXCEPT ![p] = "done"]
                /\ obs' = [obs EXCEPT ![p].outcome = "function_not_found",
                                      ![p].lookups = @ + 1,
                                      ![p].freed = @ + 1]
                /\ refcnt' = L1.refcnt
                /\ image' = L1.image
                /\ badfree' = L1.bad
                /\ handle' = [handle EXCEPT ![p] = NULL]
                /\ last' = Ended(p, "function_not_found")
                /\ UNCHANGED t
           ELSE /\ pc' = [pc EXCEPT ![p] = "version"]
                /\ obs' = [obs EXCEPT ![p].lookups = @ + 1]
                /\ t' = [t EXCEPT ![p] = sym]
                /\ UNCHANGED <<loader, handle, last>>
    /\ UNCHANGED <<env, evicted, caches, key, i, pre, loads>>

add_table_get_func(p) ==
    /\ pc[p] = "getfunc"
    /\ LET sym == GET_FUNC(handle[p])
           L1 == handle_deleter(Loader, handle[p])
       IN  IF sym = NULL
           THEN /\ pc' = [pc EXCEPT ![p] = "done"]
                /\ obs' = [obs EXCEPT ![p].outcome = "function_not_found",
                                      ![p].lookups = @ + 1,
                                      ![p].diag = @ + 1,
                                      ![p].freed = @ + 1]
                /\ refcnt' = L1.refcnt
                /\ image' = L1.image
                /\ badfree' = L1.bad
                /\ handle' = [handle EXCEPT ![p] = NULL]
                /\ last' = Ended(p, "function_not_found")
                /\ UNCHANGED t
           ELSE /\ pc' = [pc EXCEPT ![p] = "version"]
                /\ obs' = [obs EXCEPT ![p].lookups = @ + 1]
                /\ t' = [t EXCEPT ![p] = sym]
                /\ UNCHANGED <<loader, handle, last>>
    /\ UNCHANGED <<env, evicted, caches, key, i, pre, loads>>

\* add_table with line 126 lost: a table that passed the version test is
\* cached while its handle stays local.
add_table_version_nobank(p) ==
    /\ pc[p] = "version"
    /\ LET L1 == handle_deleter(Loader, handle[p])
       IN  IF Deref(t[p]).version # SPEC_VERSION
           THEN /\ pc' = [pc EXCEPT ![p] = "done"]
                /\ obs' = [obs EXCEPT ![p].outcome = "specification_mismatch",
                                      ![p].freed = @ + 1]
                /\ refcnt' = L1.refcnt
                /\ image' = L1.image
                /\ badfree' = L1.bad
                /\ handle' = [handle EXCEPT ![p] = NULL]
                /\ t' = [t EXCEPT ![p] = NULL]
                /\ last' = Ended(p, "specification_mismatch")
           ELSE /\ pc' = [pc EXCEPT ![p] = "tables_index"]
                /\ UNCHANGED <<loader, handle, t, obs, last>>
    /\ UNCHANGED <<env, evicted, caches, key, i, pre, loads>>

\* The version test of line 123 as < for !=: a newer table is accepted.
add_table_version_older(p) ==
    /\ pc[p] = "version"
    /\ LET L1 == handle_deleter(Loader, handle[p])
       IN  IF Deref(t[p]).version < SPEC_VERSION
           THEN /\ pc' = [pc EXCEPT ![p] = "done"]
                /\ obs' = [obs EXCEPT ![p].outcome = "specification_mismatch",
                                      ![p].freed = @ + 1]
                /\ refcnt' = L1.refcnt
                /\ image' = L1.image
                /\ badfree' = L1.bad
                /\ handle' = [handle EXCEPT ![p] = NULL]
                /\ t' = [t EXCEPT ![p] = NULL]
                /\ last' = Ended(p, "specification_mismatch")
           ELSE /\ pc' = [pc EXCEPT ![p] = "handles_index"]
                /\ UNCHANGED <<loader, handle, t, obs, last>>
    /\ UNCHANGED <<env, evicted, caches, key, i, pre, loads>>

\* The version test of line 123 inverted (== for !=).
add_table_version_inverted(p) ==
    /\ pc[p] = "version"
    /\ LET L1 == handle_deleter(Loader, handle[p])
       IN  IF Deref(t[p]).version = SPEC_VERSION
           THEN /\ pc' = [pc EXCEPT ![p] = "done"]
                /\ obs' = [obs EXCEPT ![p].outcome = "specification_mismatch",
                                      ![p].freed = @ + 1]
                /\ refcnt' = L1.refcnt
                /\ image' = L1.image
                /\ badfree' = L1.bad
                /\ handle' = [handle EXCEPT ![p] = NULL]
                /\ t' = [t EXCEPT ![p] = NULL]
                /\ last' = Ended(p, "specification_mismatch")
           ELSE /\ pc' = [pc EXCEPT ![p] = "handles_index"]
                /\ UNCHANGED <<loader, handle, t, obs, last>>
    /\ UNCHANGED <<env, evicted, caches, key, i, pre, loads>>

\* if (t->version != SPEC_VERSION) throw specification_mismatch, and
\* unwinding destroys the local handle.
add_table_version(p) ==
    /\ pc[p] = "version"
    /\ LET L1 == handle_deleter(Loader, handle[p])
       IN  IF Deref(t[p]).version # SPEC_VERSION
           THEN /\ pc' = [pc EXCEPT ![p] = "done"]
                /\ obs' = [obs EXCEPT ![p].outcome = "specification_mismatch",
                                      ![p].freed = @ + 1]
                /\ refcnt' = L1.refcnt
                /\ image' = L1.image
                /\ badfree' = L1.bad
                /\ handle' = [handle EXCEPT ![p] = NULL]
                /\ t' = [t EXCEPT ![p] = NULL]
                /\ last' = Ended(p, "specification_mismatch")
           ELSE /\ pc' = [pc EXCEPT ![p] = "handles_index"]
                /\ UNCHANGED <<loader, handle, t, obs, last>>
    /\ UNCHANGED <<env, evicted, caches, key, i, pre, loads>>

\* handles[key]: the map's operator[] inserts a null dlhandle for a new key.
add_table_handles_index(p) ==
    /\ pc[p] = "handles_index"
    /\ handles' = IF key[p] \in DOMAIN handles THEN handles
                  ELSE Put(handles, key[p], NULL)
    /\ pc' = [pc EXCEPT ![p] = "handles_assign"]
    /\ UNCHANGED <<env, evicted, loader, tables, key, i, handle, t, obs, pre, loads, last>>

\* handles[key] = std::move(handle): the element releases what it owned and
\* takes the local handle, which is left null.
add_table_handles_assign(p) ==
    /\ pc[p] = "handles_assign"
    /\ LET L1 == handle_deleter(Loader, handles[key[p]])
       IN  /\ refcnt' = L1.refcnt
           /\ image' = L1.image
           /\ badfree' = L1.bad
    /\ evicted' = IF handles[key[p]] = NULL THEN evicted
                  ELSE evicted \cup {key[p]}
    /\ handles' = Put(handles, key[p], handle[p])
    /\ handle' = [handle EXCEPT ![p] = NULL]
    /\ pc' = [pc EXCEPT ![p] = "tables_index"]
    /\ UNCHANGED <<env, tables, key, i, t, obs, pre, loads, last>>

\* tables[key]: the map's operator[] inserts function_table_t{} for a new key.
add_table_tables_index(p) ==
    /\ pc[p] = "tables_index"
    /\ tables' = IF key[p] \in DOMAIN tables THEN tables
                 ELSE Put(tables, key[p], EmptyTable)
    /\ pc' = [pc EXCEPT ![p] = "tables_assign"]
    /\ UNCHANGED <<env, evicted, loader, handles, key, i, handle, t, obs, pre, loads, last>>

\* Line 127 as a fresh map: the table is stored and the entries of the other
\* devices are dropped.
add_table_tables_assign_reset(p) ==
    /\ pc[p] = "tables_assign"
    /\ tables' = [x \in {key[p]} |-> Deref(t[p])]
    /\ loads' = [loads EXCEPT ![key[p]] = @ + 1]
    /\ pc' = [pc EXCEPT ![p] = "return"]
    /\ UNCHANGED <<env, evicted, loader, handles, key, i, handle, t, obs, pre, last>>

\* tables[key] = *t: the exported table is copied into the element.
add_table_tables_assign(p) ==
    /\ pc[p] = "tables_assign"
    /\ tables' = Put(tables, key[p], Deref(t[p]))
    /\ loads' = [loads EXCEPT ![key[p]] = @ + 1]
    /\ pc' = [pc EXCEPT ![p] = "return"]
    /\ UNCHANGED <<env, evicted, loader, handles, key, i, handle, t, obs, pre, last>>

\* return *t: the reference returned designates the table inside the
\* library's image; the local handle, moved from, is destroyed null.
add_table_return(p) ==
    /\ pc[p] = "return"
    /\ LET L1 == handle_deleter(Loader, handle[p])
       IN  /\ refcnt' = L1.refcnt
           /\ image' = L1.image
           /\ badfree' = L1.bad
    /\ obs' = [obs EXCEPT ![p].outcome = "ok",
                          ![p].ref = [obj |-> "image", of |-> t[p]],
                          ![p].tbl = Deref(t[p])]
    /\ last' = Ended(p, "ok")
    /\ pc' = [pc EXCEPT ![p] = "done"]
    /\ UNCHANGED <<env, evicted, caches, key, i, handle, t, pre, loads>>

\* The caller has taken the result (a reference or an exception) and is free
\* to call again.
Done(p) ==
    /\ pc[p] = "done"
    /\ pc' = [pc EXCEPT ![p] = "idle"]
    /\ key' = [key EXCEPT ![p] = "x86cpu"]
    /\ i' = [i EXCEPT ![p] = 1]
    /\ handle' = [handle EXCEPT ![p] = NULL]
    /\ t' = [t EXCEPT ![p] = NULL]
    /\ obs' = [obs EXCEPT ![p] = NoObs]
    /\ pre' = [pre EXCEPT ![p] = NoPre]
    /\ UNCHANGED <<env, evicted, loader, caches, loads, last>>

\* Between calls the installation changes: a library file is installed,
\* removed or replaced.  Images already loaded are not affected.
EnvChange ==
    /\ \A p \in Threads : pc[p] = "idle"
    /\ \E lib \in Libs, fs \in FileStates :
          /\ fs # file[lib]
          /\ file' = [file EXCEPT ![lib] = fs]
    /\ UNCHANGED <<libraries, is_generic_device_supported, loader, caches,
                   pc, key, i, handle, t, obs, pre, loads, last, evicted>>

Step(p) ==
    \/ \E d \in Devices : Call(p, d)
    \/ operator_index(p)
    \/ add_table_loop(p)
    \/ add_table_no_handle(p)
    \/ add_table_get_func(p)
    \/ add_table_version(p)
    \/ add_table_handles_index(p)
    \/ add_table_handles_assign(p)
    \/ add_table_tables_index(p)
    \/ add_table_tables_assign(p)
    \/ add_table_return(p)
    \/ Done(p)

\* One caller: the synchronous, single-threaded use the code is written for.
Next == EnvChange \/ Step("p1")
Spec == Init /\ [][Next]_vars

\* Callers on several threads, with no synchronisation (the code has none),
\* while the installation stays as it is.  Unsynchronised access to the two
\* maps is a data race; the behaviours here are the interleavings of the
\* callers' map operations (find, operator[], assignment), each taken whole,
\* which are among the outcomes a build can produce.
NextConc == \E p \in Threads : Step(p)
SpecConc == Init /\ [][NextConc]_vars

\* ------------------------------------------------------------ properties
\* The caller of specification Spec.
P1 == "p1"

\* The call of p has ended and its result is with the caller.
AtDone(p) == pc[p] = "done"

\* The table the first openable candidate of p's call exports.
FirstTable(p) ==
    [version |-> pre[p].offer.version, fn |-> libraries[key[p]][pre[p].first]]

\* C1 as stated: whenever some candidate of the device can be opened and is
\* valid, wherever it sits in the list, the first resolve call for the
\* device succeeds and returns a table of the expected version.
C1_AnyValidCandidate ==
    (AtDone(P1) /\ pre[P1].prev.outcome = "never" /\ pre[P1].anyvalid)
        => (obs[P1].outcome = "ok" /\ obs[P1].tbl.version = SPEC_VERSION)

\* C1 amended: whenever the first candidate of the device that can be opened
\* is valid, a resolve call for the device (not resolved before) succeeds and
\* returns a table of the expected version.
C1_FirstOpenableValid ==
    (AtDone(P1) /\ pre[P1].prev.outcome # "ok" /\ pre[P1].first > 0 /\ Valid(pre[P1].offer))
        => (obs[P1].outcome = "ok" /\ obs[P1].tbl.version = SPEC_VERSION)

\* A first call succeeded with the valid library second in the list, after a
\* library that could not be opened.
C1_Witness ==
    /\ AtDone(P1) /\ pre[P1].prev.outcome = "never"
    /\ pre[P1].first = 2 /\ Valid(pre[P1].offer)
    /\ obs[P1].outcome = "ok"

\* C2: after a resolve call for a device succeeded, a later call for it
\* attempts no open and returns the cache entry; the loading call made
\* exactly one successful open, so the two together made one.
C2_Idempotent ==
    /\ (AtDone(P1) /\ pre[P1].prev.outcome = "ok")
          => /\ obs[P1].path = "fast"
             /\ obs[P1].attempts = <<>>
             /\ obs[P1].nopen = 0
             /\ obs[P1].outcome = "ok"
             /\ obs[P1].ref = [obj |-> "cache", of |-> key[P1]]
    /\ (AtDone(P1) /\ pre[P1].prev.outcome # "ok" /\ obs[P1].outcome = "ok")
          => (obs[P1].nopen = 1 /\ loads[key[P1]] = 1)

\* A second call for a device whose previous call succeeded has returned.
C2_Witness == AtDone(P1) /\ pre[P1].prev.outcome = "ok" /\ obs[P1].outcome = "ok"

\* C3: a call on the slow path attempts the candidates in registry order up
\* to and including the first that opens, each once, and no later one; on
\* success the table cached and returned is the one that candidate exports.
C3_RegistryOrder ==
    (AtDone(P1) /\ obs[P1].path = "slow")
        => /\ obs[P1].attempts =
                 IF pre[P1].first = 0 THEN libraries[key[P1]]
                 ELSE SubSeq(libraries[key[P1]], 1, pre[P1].first)
           /\ obs[P1].nopen = IF pre[P1].first = 0 THEN 0 ELSE 1
           /\ obs[P1].outcome = "ok"
                 => /\ pre[P1].first > 0
                    /\ obs[P1].tbl = FirstTable(P1)
                    /\ key[P1] \in DOMAIN tables
                    /\ tables[key[P1]] = FirstTable(P1)

\* Candidates [A, B] with only B openable: A then B were attempted and the
\* table is B's.
C3_Witness ==
    /\ AtDone(P1) /\ obs[P1].outcome = "ok"
    /\ libraries[key[P1]] = <<"libA", "libB">>
    /\ ~Openable("libA")
    /\ obs[P1].attempts = <<"libA", "libB">>
    /\ tables[key[P1]].fn = "libB"

\* C4: when no candidate opens, the call fails with unsupported_device
\* exactly for the generic device of a build without generic support, with
\* backend_not_found otherwise, and looks no symbol up; and these two
\* failures arise in no other case.
C4_NoCandidateOpens ==
    /\ (AtDone(P1) /\ obs[P1].path = "slow" /\ pre[P1].first = 0)
          => /\ obs[P1].outcome =
                   IF key[P1] = "generic_device" /\ ~is_generic_device_supported
                   THEN "unsupported_device" ELSE "backend_not_found"
             /\ obs[P1].lookups = 0
    /\ (AtDone(P1) /\ obs[P1].outcome \in {"unsupported_device", "backend_not_found"})
          => (pre[P1].first = 0 /\ obs[P1].lookups = 0)

\* The generic device of a build with generic support failed with
\* backend_not_found after its candidates were tried.
C4_Witness ==
    /\ AtDone(P1) /\ key[P1] = "generic_device" /\ is_generic_device_supported
    /\ obs[P1].outcome = "backend_not_found"
    /\ obs[P1].attempts = libraries[key[P1]]
    /\ obs[P1].attempts # <<>>

\* C5: a call whose opened library exports a table of another version fails
\* with specification_mismatch and leaves no entry for the device in either
\* cache; the next call for the device is on the slow path again and tries
\* the candidates.
C5_VersionMismatch ==
    /\ (/\ AtDone(P1) /\ obs[P1].path = "slow" /\ pre[P1].first > 0
        /\ pre[P1].offer.sym /\ pre[P1].offer.version # SPEC_VERSION)
          => /\ obs[P1].outcome = "specification_mismatch"
             /\ key[P1] \notin DOMAIN tables
             /\ key[P1] \notin DOMAIN handles
    /\ (AtDone(P1) /\ obs[P1].outcome = "specification_mismatch")
          => (pre[P1].offer.sym /\ pre[P1].offer.version # SPEC_VERSION)
    /\ (AtDone(P1) /\ pre[P1].prev.outcome = "specification_mismatch")
          => /\ obs[P1].path = "slow"
             /\ obs[P1].ref.obj # "cache"
             /\ libraries[key[P1]] # <<>> => obs[P1].attempts # <<>>

\* A plugin of version 2 was refused, and the next call for the device
\* opened it and refused it again.
C5_Witness ==
    /\ AtDone(P1) /\ pre[P1].prev.outcome = "specification_mismatch"
    /\ pre[P1].offer.version = SPEC_VERSION + 1
    /\ obs[P1].outcome = "specification_mismatch"
    /\ obs[P1].nopen = 1

\* Every open reference of the loader is owned by an entry of the Handle
\* Cache: nothing the call opened is left open outside it.
NoOpenHandleOutsideCache ==
    \A l \in Libs :
        refcnt[l] = Cardinality({d \in DOMAIN handles : handles[d] = l})

\* C6: a call whose opened library lacks the table symbol fails with
\* function_not_found; when the failure reaches the caller the handle the
\* call opened has been released once and is not in the Handle Cache.
C6_MissingSymbol ==
    /\ (/\ AtDone(P1) /\ obs[P1].path = "slow" /\ pre[P1].first > 0
        /\ ~pre[P1].offer.sym)
          => obs[P1].outcome = "function_not_found"
    /\ (AtDone(P1) /\ obs[P1].outcome = "function_not_found")
          => /\ pre[P1].first > 0 /\ ~pre[P1].offer.sym
             /\ obs[P1].nopen = 1
             /\ obs[P1].freed = 1
             /\ handle[P1] = NULL
             /\ key[P1] \notin DOMAIN handles
             /\ NoOpenHandleOutsideCache

\* A library without the symbol was opened, after one that did not open,
\* and the call failed.
C6_Witness ==
    /\ AtDone(P1) /\ obs[P1].outcome = "function_not_found"
    /\ Len(obs[P1].attempts) = 2
    /\ obs[P1].freed = 1

\* The positions of add_table from which the caches are written.
BankSteps == {"handles_index", "handles_assign", "tables_index", "tables_assign"}

\* A call that fails writes neither cache: the caches are written only by
\* the four steps of lines 126-127, and a call that reached them ends with
\* a table.
FailedCallWritesNothing ==
    /\ pc[P1] \notin BankSteps => (tables' = tables /\ handles' = handles)
    /\ pc[P1] \in BankSteps \cup {"return"} => obs'[P1].outcome \in {"none", "ok"}

\* C7 as stated: a failed call leaves no entry for the device in either
\* cache, and the next call for the device succeeds when the installation
\* has changed so that some valid candidate, which there was none of at the
\* failed call, can now be opened.
C7_RetryAnyValid ==
    /\ (AtDone(P1) /\ obs[P1].outcome \in Errors)
          => (key[P1] \notin DOMAIN tables /\ key[P1] \notin DOMAIN handles)
    /\ (/\ AtDone(P1) /\ pre[P1].prev.outcome \in Errors
        /\ ~pre[P1].prev.anyvalid /\ pre[P1].anyvalid)
          => (obs[P1].path = "slow" /\ obs[P1].outcome = "ok")

\* C7 amended: a failed call leaves both caches as they were; a later call
\* for the device is on the slow path again, and succeeds when the first
\* candidate that can now be opened is valid.
C7_FailureLeavesCaches ==
    /\ [][FailedCallWritesNothing]_vars
    /\ [](\A d \in Devices :
             (last[d].outcome \in Errors /\ pc[P1] \in {"idle", "done"})
                 => (d \notin DOMAIN tables /\ d \notin DOMAIN handles))
    /\ []((AtDone(P1) /\ pre[P1].prev.outcome \in Errors)
             => /\ obs[P1].path = "slow"
                /\ (pre[P1].first > 0 /\ Valid(pre[P1].offer))
                      => obs[P1].outcome = "ok")

\* A call failed with backend_not_found, and the next call for the device,
\* the plugin now installed, succeeded.
C7_Witness ==
    /\ AtDone(P1) /\ pre[P1].prev.outcome = "backend_not_found"
    /\ obs[P1].outcome = "ok"

\* C8: no device is loaded twice, and the entry of a loaded device is never
\* removed or written again.
C8_LoadedOnce ==
    /\ [](\A d \in Devices :
             /\ loads[d] <= 1
             /\ loads[d] = 1 => d \in DOMAIN tables)
    /\ [][\A d \in Devices :
             loads[d] = 1
                 => /\ d \in DOMAIN tables'
                    /\ tables'[d] = tables[d]
                    /\ loads'[d] = 1]_vars

\* A loaded device was asked for again after its library file was replaced
\* by one of another version, and the entry is the one first loaded.
C8_Witness ==
    /\ AtDone(P1) /\ pre[P1].prev.outcome = "ok" /\ loads[key[P1]] = 1
    /\ file[tables[key[P1]].fn].version = SPEC_VERSION + 1
    /\ tables[key[P1]].version = SPEC_VERSION

\* C9: a successful call returns a reference to the entry of the Function
\* Table Cache for its device, on the loading call as on every later one,
\* and never to the table inside the library's image.
C9_ReturnsCacheEntry ==
    (AtDone(P1) /\ obs[P1].outcome = "ok")
        => obs[P1].ref = [obj |-> "cache", of |-> key[P1]]

\* C10: with callers on several threads, a device is loaded once, no two
\* callers both open a library for the same device, and all callers that
\* were returned a table for a device were returned the same object.
C10_OneLoadUnderRace ==
    /\ \A d \in Devices : loads[d] <= 1
    /\ \A p, q \in Threads :
          (p # q /\ pc[p] # "idle" /\ pc[q] # "idle" /\ key[p] = key[q])
              => /\ obs[p].nopen + obs[q].nopen <= 1
                 /\ (AtDone(p) /\ AtDone(q)
                     /\ obs[p].outcome = "ok" /\ obs[q].outcome = "ok")
                       => obs[p].ref = obs[q].ref

\* C11: in every state, between the two insertions of lines 126-127 too, a
\* device with an entry in the Function Table Cache has an entry in the
\* Handle Cache that holds an open handle, the one of the library the cached
\* table points into; when a call has returned or failed, the two caches
\* have the same keys.
C11_HandleBeforeTable ==
    /\ \A d \in DOMAIN tables :
          /\ d \in DOMAIN handles
          /\ handles[d] # NULL
          /\ refcnt[handles[d]] > 0
          /\ tables[d] # EmptyTable => tables[d].fn = handles[d]
    /\ pc[P1] \in {"idle", "done"} => DOMAIN tables = DOMAIN handles

\* Between the two insertions: the handle of the device is banked and its
\* table is not yet cached.
C11_Witness ==
    /\ pc[P1] = "tables_index"
    /\ key[P1] \in DOMAIN handles /\ handles[key[P1]] # NULL
    /\ key[P1] \notin DOMAIN tables

\* C12: every open reference of the loader is owned by the Handle Cache or
\* by the local handle of the call in progress, and when the call has ended
\* by the Handle Cache alone; a call releases what it opened at most once,
\* and exactly once unless it banked it; FREE_LIB_HANDLE is never given a
\* null handle or a handle that is not open.
C12_HandleAccounting ==
    /\ ~badfree
    /\ \A l \in Libs :
          refcnt[l] = Cardinality({d \in DOMAIN handles : handles[d] = l})
                        + (IF handle[P1] = l THEN 1 ELSE 0)
    /\ AtDone(P1)
          => /\ handle[P1] = NULL
             /\ obs[P1].freed <= obs[P1].nopen
             /\ obs[P1].nopen = obs[P1].freed
                    + (IF obs[P1].outcome = "ok" /\ obs[P1].path = "slow" THEN 1 ELSE 0)
             /\ (obs[P1].outcome = "ok" /\ obs[P1].path = "slow")
                   => handles[key[P1]] = obs[P1].attempts[Len(obs[P1].attempts)]

\* A call opened a library, found another version and released it, while
\* the handle of another device stays banked.
C12_Witness ==
    /\ AtDone(P1) /\ obs[P1].outcome = "specification_mismatch"
    /\ obs[P1].nopen = 1 /\ obs[P1].freed = 1
    /\ DOMAIN handles # {}

\* C13: with one caller, a handle stored in the Handle Cache is never
\* released and never replaced, and the library of every loaded table stays
\* loaded with the image it was loaded from.
C13_NeverUnloaded ==
    /\ [](evicted = {})
    /\ [](\A d \in Devices : loads[d] >= 1 => refcnt[tables[d].fn] >= 1)
    /\ [][\A d \in DOMAIN handles :
             handles[d] # NULL
                 => /\ d \in DOMAIN handles'
                    /\ handles'[d] = handles[d]
                    /\ refcnt'[handles[d]] >= 1
                    /\ image'[handles[d]] = image[handles[d]]]_vars

\* A later call for another device failed, and the library of a banked
\* handle, its file since removed, is still loaded.
C13_Witness ==
    /\ AtDone(P1) /\ obs[P1].outcome \in Errors
    /\ \E d \in DOMAIN handles :
          /\ ~file[handles[d]].present
          /\ refcnt[handles[d]] = 1
          /\ image[handles[d]].version = SPEC_VERSION

\* C14: a call opens at most one library and looks the table symbol up at
\* most once; the candidates it tried are the registry list up to the first
\* one that opens, each tried once; function_not_found and
\* specification_mismatch are decided by that candidate, with no later
\* candidate attempted.
C14_FirstOpenedDecides ==
    AtDone(P1) /\ obs[P1].path = "slow"
        => LET att == obs[P1].attempts
               cands == libraries[key[P1]]
           IN  /\ obs[P1].nopen <= 1
               /\ obs[P1].lookups <= obs[P1].nopen
               /\ Len(att) <= Len(cands)
               /\ att = SubSeq(cands, 1, Len(att))
               /\ \A j, k \in 1..Len(att) : att[j] = att[k] => j = k
               /\ pre[P1].first > 0 => Len(att) = pre[P1].first
               /\ obs[P1].outcome \in {"function_not_found", "specification_mismatch"}
                     => /\ obs[P1].nopen = 1
                        /\ obs[P1].lookups = 1
                        /\ Len(att) = pre[P1].first

\* The first candidate opened and failed while the next one of the list
\* would have opened and passed both checks: it was not attempted.
C14_Witness ==
    /\ AtDone(P1)
    /\ obs[P1].outcome \in {"function_not_found", "specification_mismatch"}
    /\ Len(obs[P1].attempts) = 1
    /\ Len(libraries[key[P1]]) > 1
    /\ Openable(libraries[key[P1]][2])
    /\ Valid(Offered(libraries[key[P1]][2]))

\* C15: every entry of the Function Table Cache has version SPEC_VERSION in
\* every state between the statements of the program; inside line 127 the
\* element operator[] has just inserted is still value-initialised, and the
\* table the same statement is about to assign to it has SPEC_VERSION.
C15_CachedVersion ==
    \A d \in DOMAIN tables :
        \/ tables[d].version = SPEC_VERSION
        \/ /\ pc[P1] = "tables_assign" /\ d = key[P1]
           /\ tables[d] = EmptyTable
           /\ Deref(t[P1]).version = SPEC_VERSION

\* A device that failed with specification_mismatch and was not cached is
\* loaded by a later call and cached with version SPEC_VERSION.
C15_Witness ==
    /\ AtDone(P1) /\ obs[P1].outcome = "ok" /\ obs[P1].path = "slow"
    /\ pre[P1].prev.outcome = "specification_mismatch"
    /\ key[P1] \in DOMAIN tables
    /\ tables[key[P1]].version = SPEC_VERSION

\* C16: a call that fails with backend_not_found or function_not_found has
\* written the loader's last error text once, in the step that throws; a
\* call that ends any other way, and a call still in progress, has written
\* nothing.
C16_DiagnosticOnce ==
    /\ AtDone(P1)
          => obs[P1].diag =
                IF obs[P1].outcome \in {"backend_not_found", "function_not_found"}
                THEN 1 ELSE 0
    /\ pc[P1] \notin {"idle", "done"} => obs[P1].diag = 0

\* Two candidates failed to open and the text was written once.
C16_Witness ==
    /\ AtDone(P1) /\ obs[P1].outcome = "backend_not_found"
    /\ Len(obs[P1].attempts) > 1
    /\ obs[P1].diag = 1

\* C17: when two unsynchronized callers have both loaded the same device and
\* received their tables, no handle stored in the Handle Cache for it was
\* replaced and released by the other caller's insertion, and the library
\* the tables point into is loaded.
C17_NoReleaseUnderRace ==
    \A p, q \in Threads :
        (/\ p # q /\ key[p] = key[q]
         /\ AtDone(p) /\ obs[p].outcome = "ok" /\ obs[p].path = "slow"
         /\ AtDone(q) /\ obs[q].outcome = "ok" /\ obs[q].path = "slow")
            => /\ key[p] \notin evicted
               /\ refcnt[obs[p].tbl.fn] >= 1

\* The outcome add_table reaches for device d when the first candidate that
\* opens offers f (NoFile when none opens).
Decided(f, d) ==
    IF ~f.present
    THEN IF ~is_generic_device_supported /\ d = "generic_device"
         THEN "unsupported_device" ELSE "backend_not_found"
    ELSE IF ~f.sym THEN "function_not_found"
    ELSE IF f.version # SPEC_VERSION THEN "specification_mismatch"
    ELSE "ok"

\* What the installation alone offers device d: the file of its first
\* candidate that is installed, whatever is loaded.
Installed(d) ==
    LET S == {k \in 1..Len(libraries[d]) : file[libraries[d][k]].present}
    IN  IF S = {} THEN NoFile
        ELSE file[libraries[d][CHOOSE k \in S : \A j \in S : k <= j]]

\* C18 as stated: the outcome of a loading call for d is the one the
\* installation decides for d, whichever other devices are cached.
C18_OutcomeIndependent ==
    (AtDone(P1) /\ obs[P1].path = "slow")
        => obs[P1].outcome = Decided(Installed(key[P1]), key[P1])

\* C18: a step of a call for d leaves the entries of every other device in
\* both caches as they were; a call for a cached device succeeds; the outcome
\* of a loading call is decided by what the loader offers for d's candidates
\* when it is made, which is what the installation offers when no other
\* device is cached.
C18_PerDeviceFrame ==
    /\ [](AtDone(P1) /\ obs[P1].path = "fast" => obs[P1].outcome = "ok")
    /\ [](AtDone(P1) /\ obs[P1].path = "slow"
             => obs[P1].outcome = Decided(pre[P1].offer, key[P1]))
    /\ [](AtDone(P1) /\ obs[P1].path = "slow" /\ DOMAIN handles \subseteq {key[P1]}
             => obs[P1].outcome = Decided(Installed(key[P1]), key[P1]))
    /\ [][\A d \in Devices :
             (pc[P1] = "idle" \/ d # key[P1])
                 => /\ (d \in DOMAIN tables) = (d \in DOMAIN tables')
                    /\ (d \in DOMAIN handles) = (d \in DOMAIN handles')
                    /\ d \in DOMAIN tables => tables'[d] = tables[d]
                    /\ d \in DOMAIN handles => handles'[d] = handles[d]]_vars

\* A device was loaded from a library whose file is gone and that the
\* cached handle of another device keeps loaded; the other device's entries
\* are in both caches.
C18_Witness ==
    /\ AtDone(P1) /\ obs[P1].path = "slow" /\ obs[P1].outcome = "ok"
    /\ \E d \in Devices \ {key[P1]} :
          /\ d \in DOMAIN tables
          /\ handles[d] = handles[key[P1]]
          /\ ~file[handles[d]].present

====
